---- MODULE Spec2Model ----
(***************************************************************************)
(* ToneGenerator of src/main.py: the map of playback handles (sounds), the *)
(* list of temporary files (temp_files), and the operations play_tone,     *)
(* stop_tone and cleanup, together with the storage and the playback       *)
(* subsystem they act on.                                                  *)
(***************************************************************************)
EXTENDS Integers, Sequences, FiniteSets, TLC

\* Number of temporary file names handed out in one run of the model.
MaxFiles == 3

\* Frequencies (kHz) the callers pass; 0 is the falsy value of stop_tone's test.
Freqs == {0, 25, 30}

\* Durations, counted in half sample periods: duration k is k / (2 * 44100) s.
\* -3 gives a negative sample count, 0 an empty buffer, 3 one and a half
\* sample periods, 44100 the 0.5 s of play_test_sound.
Durations == {-3, 0, 3, 44100}

sample_rate == 44100

\* An optional argument: None is stop_tone's default, Some(f) a frequency.
None == <<>>
Some(f) == <<f>>

\* What the environment does to one play_tone call: everything works, the
\* playback subsystem returns no Sound, writing the WAV data fails after the
\* file was created, or creating the temporary file fails.
Outcomes == {"ok", "load_none", "write_error", "create_error"}

VARIABLES
    sounds,       \* self.sounds: frequency -> handle (index into handles)
    temp_files,   \* self.temp_files: sequence of file names
    handles,      \* every Sound the loader returned: [frequency_khz, source, state]
    disk,         \* names of the manager's files that exist on storage
    created,      \* names of the files NamedTemporaryFile has created so far
    lastOp,       \* the operation that ran last
    lastArg,      \* its frequency argument (None when it has none)
    lastResult,   \* "True", "False", "None" or the exception it raised
    lastLoad,     \* what SoundLoader.load did in the last play_tone
    stopped,      \* handles the last call turned from 'play' to 'stop'
    unlinked,     \* names os.unlink was called on by the last cleanup, in order
    denied,       \* names whose deletion the system refused in the last cleanup
    valid_calls,  \* every call so far had a frequency > 0 (or none) and a duration > 0
    lastDuration, \* the duration argument of the last play_tone (0 after other calls)
    written,      \* <<header>> of the WAV file the last play_tone wrote, <<>> if none
    cards,        \* the FrequencyControlCard widgets: pest name -> properties
    scores,       \* pest name -> results of the card's last calculate_* calls
    show_warnings,   \* PestRepellerApp.show_warnings
    sound_enabled,   \* PestRepellerApp.sound_enabled
    is_repelling,    \* PestRepellerApp.is_repelling
    repelling_event, \* PestRepellerApp.repelling_event: None or Some(frequencies)
    clock            \* the interval events scheduled in the Clock, each the
                     \* list of frequencies its callback holds

vars == <<sounds, temp_files, handles, disk, created, lastOp, lastArg,
          lastResult, lastLoad, stopped, unlinked, denied, valid_calls,
          lastDuration, written, cards, scores, show_warnings,
          sound_enabled, is_repelling, repelling_event, clock>>

\* The state of the ToneGenerator, its storage and its playback handles.
tone_vars == <<sounds, temp_files, handles, disk, created, lastOp, lastArg,
               lastResult, lastLoad, stopped, unlinked, denied, valid_calls,
               lastDuration, written>>

\* The state of the cards.
card_vars == <<cards, scores, show_warnings>>

\* The state of the application: its sound switch and its repelling timer.
app_vars == <<sound_enabled, is_repelling, repelling_event, clock>>

\* Lines 329-334 and 383-386: the application as it is constructed.
AppFields ==
    /\ sound_enabled = TRUE
    /\ is_repelling = FALSE
    /\ repelling_event = None
    /\ clock = <<>>

Range(s) == {s[i] : i \in DOMAIN s}

Playing(hs) == {h \in DOMAIN hs : hs[h].state = "play"}

HandlesOf(hs, f) == {h \in DOMAIN hs : hs[h].frequency_khz = f}

\* Sound.stop() on every handle of the set hset.
StopAll(hs, hset) ==
    [h \in DOMAIN hs |-> IF h \in hset THEN [hs[h] EXCEPT !.state = "stop"] ELSE hs[h]]

\* int(x / y) of Python: truncation toward zero.
TruncDiv(x, y) == IF x >= 0 THEN x \div y ELSE -((-x) \div y)

\* samples = int(sample_rate * duration). The duration k stands for
\* k / (2 * sample_rate) seconds, so the product sample_rate * duration is k / 2
\* (written without the factor sample_rate, which cancels, to stay inside
\* 32-bit integers for durations of a second and more).
NumSamples(duration) == TruncDiv(duration, 2)

ToneInit ==
    /\ sounds = [f \in {} |-> 0]
    /\ temp_files = <<>>
    /\ handles = <<>>
    /\ disk = {}
    /\ created = {}
    /\ lastOp = "init"
    /\ lastArg = None
    /\ lastResult = "None"
    /\ lastLoad = "not_called"
    /\ stopped = {}
    /\ unlinked = <<>>
    /\ denied = {}
    /\ valid_calls = TRUE
    /\ lastDuration = 0
    /\ written = <<>>

\* A ToneGenerator on its own: no card exists.
Init ==
    /\ ToneInit
    /\ cards = [n \in {} |-> 0]
    /\ scores = [n \in {} |-> 0]
    /\ show_warnings = TRUE
    /\ AppFields

\* The handle play_tone fails to stop when the test of lines 86-88 is lost.
PreviousToStopSkipped(snd, hs, frequency_khz) == {}

\* play_tone stopping every playing handle of the map before it plays.
PreviousToStopAll(snd, hs, frequency_khz) == Range(snd) \cap Playing(hs)

\* Lines 86-88: the handle stored under frequency_khz, when it is playing.
PreviousToStop(snd, hs, frequency_khz) ==
    IF frequency_khz \in DOMAIN snd /\ hs[snd[frequency_khz]].state = "play"
    THEN {snd[frequency_khz]}
    ELSE {}

\* generate_tone: "ValueError" when np.linspace is given a negative sample
\* count (nothing is created), "create_error" when the temporary file cannot
\* be created, "write_error" when the file exists but wave fails to write it
\* (the append of line 81 is not reached), "ok" when the name is returned.
generate_tone(duration, env) ==
    IF NumSamples(duration) < 0 THEN "ValueError"
    ELSE IF env = "create_error" THEN "create_error"
    ELSE IF env = "write_error" THEN "write_error"
    ELSE "ok"

\* Lines 75-79: the header and frame count of the WAV file wave writes for a
\* buffer of the given number of samples.
WavFile(samples) ==
    [nchannels |-> 1, sampwidth |-> 2, framerate |-> sample_rate, nframes |-> samples]

\* generate_tone without the append of line 81.
TrackFileNever(files, gen, name) == files

\* Line 81: the names tracked after generate_tone ended as gen for file name.
TrackFile(files, gen, name) ==
    IF gen = "ok" THEN Append(files, name) ELSE files

\* The Sound when play_tone forgets sound.play().
StartedSoundNotPlayed(frequency_khz, filename) ==
    [frequency_khz |-> frequency_khz, source |-> filename, state |-> "stop"]

\* Lines 93-94: the Sound the loader returned for filename, once played.
StartedSound(frequency_khz, filename) ==
    [frequency_khz |-> frequency_khz, source |-> filename, state |-> "play"]

\* play_tone returning True whatever the loader gave.
PlayResultAlwaysTrue(sound) == "True"

\* Lines 92-97: the value play_tone returns, given whether load gave a Sound.
PlayResult(sound) == IF sound THEN "True" ELSE "False"

play_tone(frequency_khz, duration, env) ==
    /\ Cardinality(created) < MaxFiles
    /\ LET prev     == PreviousToStop(sounds, handles, frequency_khz)
           hs       == StopAll(handles, prev)
           gen      == generate_tone(duration, env)
           filename == Cardinality(created) + 1
           sound    == gen = "ok" /\ env = "ok"
       IN
       /\ created' = IF gen \in {"ok", "write_error"} THEN created \cup {filename} ELSE created
       /\ disk' = IF gen \in {"ok", "write_error"} THEN disk \cup {filename} ELSE disk
       /\ temp_files' = TrackFile(temp_files, gen, filename)
       /\ handles' = IF sound THEN Append(hs, StartedSound(frequency_khz, filename)) ELSE hs
       /\ sounds' = IF sound THEN (frequency_khz :> (Len(hs) + 1)) @@ sounds ELSE sounds
       /\ lastLoad' = IF gen # "ok" THEN "not_called"
                      ELSE IF sound THEN "Sound" ELSE "None"
       /\ lastResult' = IF gen = "ValueError" THEN "ValueError"
                        ELSE IF gen # "ok" THEN "OSError"
                        ELSE PlayResult(sound)
       /\ stopped' = prev
       /\ written' = IF gen = "ok" THEN <<WavFile(NumSamples(duration))>> ELSE <<>>
    /\ lastDuration' = duration
    /\ lastOp' = "play_tone"
    /\ lastArg' = Some(frequency_khz)
    /\ unlinked' = <<>>
    /\ denied' = {}
    /\ valid_calls' = (valid_calls /\ frequency_khz > 0 /\ duration > 0)

\* Python truthiness of a frequency argument: None and 0 are falsy.
Truthy(arg) == arg # None /\ arg[1] # 0

\* stop_tone without its first branch: a frequency stops nothing.
stop_tone_targets_unkeyed(snd, arg) ==
    IF arg = None THEN Range(snd) ELSE {}

\* stop_tone without its else branch: only a known frequency stops something.
stop_tone_targets_no_else(snd, arg) ==
    IF Truthy(arg) /\ arg[1] \in DOMAIN snd
    THEN {snd[arg[1]]}
    ELSE {}

\* Lines 101-105: the handles stop_tone calls stop() on. The else branch runs
\* whenever the test of line 101 fails: no argument, a zero argument, or a
\* frequency that is not a key of sounds.
stop_tone_targets(snd, arg) ==
    IF Truthy(arg) /\ arg[1] \in DOMAIN snd
    THEN {snd[arg[1]]}
    ELSE Range(snd)

stop_tone(arg) ==
    /\ LET targets == stop_tone_targets(sounds, arg)
       IN /\ handles' = StopAll(handles, targets)
          /\ stopped' = targets \cap Playing(handles)
    /\ lastOp' = "stop_tone"
    /\ lastArg' = arg
    /\ lastResult' = "None"
    /\ lastLoad' = "not_called"
    /\ unlinked' = <<>>
    /\ denied' = {}
    /\ valid_calls' = (valid_calls /\ (arg = None \/ arg[1] > 0))
    /\ lastDuration' = 0
    /\ written' = <<>>
    /\ UNCHANGED <<sounds, temp_files, disk, created>>

\* Lines 112-115 for one file: os.unlink(p) removes p, or raises because p
\* does not exist or because the system refuses the deletion.
unlink(p, dsk, refused) ==
    IF p \in dsk /\ p \notin refused
    THEN [disk |-> dsk \ {p}, error |-> FALSE]
    ELSE [disk |-> dsk, error |-> TRUE]

\* The loop without try/except: the first failing unlink ends it.
RECURSIVE unlink_all_uncaught(_, _, _)
unlink_all_uncaught(paths, dsk, refused) ==
    IF paths = <<>>
    THEN [disk |-> dsk, unlinked |-> <<>>, raised |-> FALSE]
    ELSE LET one == unlink(Head(paths), dsk, refused)
         IN IF one.error
            THEN [disk |-> one.disk, unlinked |-> <<Head(paths)>>, raised |-> TRUE]
            ELSE LET rest == unlink_all_uncaught(Tail(paths), one.disk, refused)
                 IN [rest EXCEPT !.unlinked = <<Head(paths)>> \o @]

\* Lines 111-115: the loop over temp_files; the bare except swallows the
\* error of one unlink and the loop goes on with the next name.
RECURSIVE unlink_all(_, _, _)
unlink_all(paths, dsk, refused) ==
    IF paths = <<>>
    THEN [disk |-> dsk, unlinked |-> <<>>, raised |-> FALSE]
    ELSE LET one  == unlink(Head(paths), dsk, refused)
             rest == unlink_all(Tail(paths), one.disk, refused)
         IN [rest EXCEPT !.unlinked = <<Head(paths)>> \o @]

\* Lines 109-110: the handles cleanup calls stop() on.
cleanup_targets(snd) == Range(snd)

cleanup(refused) ==
    /\ LET targets == cleanup_targets(sounds)
           r       == unlink_all(temp_files, disk, refused)
       IN /\ handles' = StopAll(handles, targets)
          /\ stopped' = targets \cap Playing(handles)
          /\ disk' = r.disk
          /\ unlinked' = r.unlinked
          /\ lastResult' = IF r.raised THEN "OSError" ELSE "None"
    /\ denied' = refused
    /\ lastOp' = "cleanup"
    /\ lastArg' = None
    /\ lastLoad' = "not_called"
    /\ lastDuration' = 0
    /\ written' = <<>>
    /\ UNCHANGED <<sounds, temp_files, created, valid_calls>>

\* The playback subsystem reaches the end of a tone: its state becomes 'stop'.
sound_ends(h) ==
    /\ h \in Playing(handles)
    /\ handles' = StopAll(handles, {h})
    /\ stopped' = {h}
    /\ lastOp' = "sound_ends"
    /\ lastArg' = None
    /\ lastResult' = "None"
    /\ lastLoad' = "not_called"
    /\ unlinked' = <<>>
    /\ denied' = {}
    /\ lastDuration' = 0
    /\ written' = <<>>
    /\ UNCHANGED <<sounds, temp_files, disk, created, valid_calls>>

Next ==
    \/ \E f \in Freqs, d \in Durations, env \in Outcomes :
          play_tone(f, d, env) /\ UNCHANGED <<card_vars, app_vars>>
    \/ \E arg \in {None} \cup {Some(f) : f \in Freqs} :
          stop_tone(arg) /\ UNCHANGED <<card_vars, app_vars>>
    \/ \E refused \in SUBSET disk : cleanup(refused) /\ UNCHANGED <<card_vars, app_vars>>
    \/ \E h \in DOMAIN handles : sound_ends(h) /\ UNCHANGED <<card_vars, app_vars>>

Spec == Init /\ [][Next]_vars


(***************************************************************************)
(* FrequencyControlCard: the scores and the zone-dependent outputs         *)
(***************************************************************************)

\* Values the card specification draws the properties of a card from, and
\* the values its slider takes.
MinValues == {-3, 2, 20}
MaxValues == {2, 5, 35}
OptimalValues == {3, 28}
AudibleValues == {-2, 0, 2, 23}
SafeValues == {2, 4, 25}
CurrentValues == {-3, -2, -1, 0, 1, 2, 3, 4, 5, 22, 23, 24, 25, 26}

\* floor(10000 * ln(100 / k)) for k = 1 .. 100: 100 * exp(-q) >= k exactly
\* when q <= ln(100 / k).
LnTable ==
    << 46051, 39120, 35065, 32188, 29957, 28134, 26592, 25257, 24079, 23025,
       22072, 21202, 20402, 19661, 18971, 18325, 17719, 17147, 16607, 16094,
       15606, 15141, 14696, 14271, 13862, 13470, 13093, 12729, 12378, 12039,
       11711, 11394, 11086, 10788, 10498, 10216, 9942, 9675, 9416, 9162,
       8915, 8675, 8439, 8209, 7985, 7765, 7550, 7339, 7133, 6931,
       6733, 6539, 6348, 6161, 5978, 5798, 5621, 5447, 5276, 5108,
       4942, 4780, 4620, 4462, 4307, 4155, 4004, 3856, 3710, 3566,
       3424, 3285, 3147, 3011, 2876, 2744, 2613, 2484, 2357, 2231,
       2107, 1984, 1863, 1743, 1625, 1508, 1392, 1278, 1165, 1053,
       943, 833, 725, 618, 512, 408, 304, 202, 100, 0 >>

\* int(100 * math.exp(-(qn / qd))) for qn >= 0, qd > 0.
IntHundredExpNeg(qn, qd) ==
    Cardinality({k \in 1..100 : qn * 10000 <= LnTable[k] * qd})

\* calculate_intensity without the test of range_size == 0: the division of
\* line 276 raises.
calculate_intensity_unguarded(c) ==
    LET range_size == c.max_freq - c.min_freq
    IN IF range_size = 0
       THEN [error |-> "ZeroDivisionError", value |-> 0]
       ELSE [error |-> "none",
             value |-> IntHundredExpNeg(
                 25 * (c.current_freq - c.optimal_freq) * (c.current_freq - c.optimal_freq),
                 range_size * range_size)]

\* Lines 272-279. position - optimal_pos is (current - optimal) / range_size,
\* so the exponent is -(25 * (current - optimal)^2 / range_size^2).
calculate_intensity(c) ==
    LET range_size == c.max_freq - c.min_freq
    IN IF range_size = 0
       THEN [error |-> "none", value |-> 100]
       ELSE [error |-> "none",
             value |-> IntHundredExpNeg(
                 25 * (c.current_freq - c.optimal_freq) * (c.current_freq - c.optimal_freq),
                 range_size * range_size)]

\* The number n / d, d # 0, with a positive denominator.
Ratio(n, d) ==
    IF d > 0 THEN [error |-> "none", num |-> n, den |-> d]
             ELSE [error |-> "none", num |-> -n, den |-> -d]

\* max(0, x) for a ratio x.
MaxZero(x) == IF x.num < 0 THEN Ratio(0, 1) ELSE x

\* calculate_safety_score without the "50 +" of line 195.
calculate_safety_score_no_offset(c) ==
    IF c.current_freq >= c.safe_threshold
    THEN Ratio(100, 1)
    ELSE IF c.current_freq <= c.audible_threshold
    THEN IF c.audible_threshold = 0
         THEN [error |-> "ZeroDivisionError", num |-> 0, den |-> 1]
         ELSE MaxZero(Ratio(c.current_freq * 50, c.audible_threshold))
    ELSE LET range_size == c.safe_threshold - c.audible_threshold
             position   == c.current_freq - c.audible_threshold
         IN Ratio(position * 50, range_size)

\* calculate_safety_score with the ramp of line 191 scaled by 100, not 50.
calculate_safety_score_full_ramp(c) ==
    IF c.current_freq >= c.safe_threshold
    THEN Ratio(100, 1)
    ELSE IF c.current_freq <= c.audible_threshold
    THEN IF c.audible_threshold = 0
         THEN [error |-> "ZeroDivisionError", num |-> 0, den |-> 1]
         ELSE MaxZero(Ratio(c.current_freq * 100, c.audible_threshold))
    ELSE LET range_size == c.safe_threshold - c.audible_threshold
             position   == c.current_freq - c.audible_threshold
         IN Ratio(50 * range_size + position * 50, range_size)

\* Lines 187-195; the result is the ratio num / den, or the error of the
\* division of line 191 by a zero audible_threshold.
calculate_safety_score(c) ==
    IF c.current_freq >= c.safe_threshold
    THEN Ratio(100, 1)
    ELSE IF c.current_freq <= c.audible_threshold
    THEN IF c.audible_threshold = 0
         THEN [error |-> "ZeroDivisionError", num |-> 0, den |-> 1]
         ELSE MaxZero(Ratio(c.current_freq * 50, c.audible_threshold))
    ELSE LET range_size == c.safe_threshold - c.audible_threshold
             position   == c.current_freq - c.audible_threshold
         IN Ratio(50 * range_size + position * 50, range_size)

\* Lines 140-141.
in_audible_range(c) == c.current_freq <= c.audible_threshold

\* get_warning_text with "<" for the "<=" of line 160.
get_warning_text_strict(c) ==
    IF in_audible_range(c) THEN "May be audible to humans (especially children)"
    ELSE IF c.current_freq < c.safe_threshold
    THEN "Borderline range - some people may hear this"
    ELSE "Ultrasonic - Safe for human ears"

\* Lines 157-162.
get_warning_text(c) ==
    IF in_audible_range(c) THEN "May be audible to humans (especially children)"
    ELSE IF c.current_freq <= c.safe_threshold
    THEN "Borderline range - some people may hear this"
    ELSE "Ultrasonic - Safe for human ears"

\* Lines 143-148.
get_warning_color(c) ==
    IF in_audible_range(c) THEN "#FF5252"
    ELSE IF c.current_freq <= c.safe_threshold THEN "#FFB74D"
    ELSE "#4CAF50"

\* Lines 164-169.
get_slider_color(c) ==
    IF in_audible_range(c) THEN "#FF5252"
    ELSE IF c.current_freq <= c.safe_threshold THEN "#FFB74D"
    ELSE "#4CAF50"

\* Lines 133-138.
get_card_color(c, warnings) ==
    IF in_audible_range(c) /\ warnings THEN "#FFE5E5"
    ELSE IF c.current_freq > c.safe_threshold THEN "#E8F5E9"
    ELSE "#FFFFFF"

\* Lines 268-270 (and the KV rules of the two bars): both scores of a card.
update_bars(c) ==
    [intensity |-> calculate_intensity(c), safety |-> calculate_safety_score(c)]

Card(mn, mx, opt, cur, aud, safe, active) ==
    [min_freq |-> mn, max_freq |-> mx, optimal_freq |-> opt, current_freq |-> cur,
     audible_threshold |-> aud, safe_threshold |-> safe, is_active |-> active]

\* One card, built as update_pest_list builds it (lines 411-419: at its
\* optimal frequency), with any range and thresholds.
CardInit ==
    /\ ToneInit
    /\ AppFields
    /\ show_warnings \in BOOLEAN
    /\ \E mn \in MinValues, mx \in MaxValues, opt \in OptimalValues,
          aud \in AudibleValues, safe \in SafeValues :
          cards = [n \in {"Rats"} |-> Card(mn, mx, opt, opt, aud, safe, FALSE)]
    /\ scores = [n \in DOMAIN cards |-> update_bars(cards[n])]

\* The card n with its current frequency set to value, and its scores.
SetCurrent(n, value) ==
    /\ cards' = [cards EXCEPT ![n].current_freq = value]
    /\ scores' = [scores EXCEPT ![n] = update_bars(cards'[n])]

\* Lines 259-261: the slider, which ranges over min_freq .. max_freq.
on_freq_change(n, value) ==
    /\ cards[n].min_freq <= value
    /\ value <= cards[n].max_freq
    /\ SetCurrent(n, value)
    /\ UNCHANGED show_warnings

\* Lines 231-234.
reset_to_optimal(n) ==
    /\ SetCurrent(n, cards[n].optimal_freq)
    /\ UNCHANGED show_warnings

\* Lines 239-243.
reset_to_safe(n) ==
    /\ IF cards[n].max_freq > cards[n].safe_threshold
       THEN SetCurrent(n, IF cards[n].safe_threshold + 2 >= cards[n].min_freq
                          THEN cards[n].safe_threshold + 2
                          ELSE cards[n].min_freq)
       ELSE UNCHANGED <<cards, scores>>
    /\ UNCHANGED show_warnings

\* Lines 246-248.
on_checkbox_active(n, value) ==
    /\ cards' = [cards EXCEPT ![n].is_active = value]
    /\ scores' = [scores EXCEPT ![n] = update_bars(cards'[n])]
    /\ UNCHANGED show_warnings

\* Lines 576-578 with update_pest_list (lines 404-420): the cards are built
\* anew, at their optimal frequency, active as recorded in active_pests.
toggle_warnings(enabled) ==
    /\ show_warnings' = enabled
    /\ cards' = [n \in DOMAIN cards |->
                    [cards[n] EXCEPT !.current_freq = cards[n].optimal_freq]]
    /\ scores' = [n \in DOMAIN cards |-> update_bars(cards'[n])]

CardNext ==
    \/ \E n \in DOMAIN cards, value \in CurrentValues :
          on_freq_change(n, value) /\ UNCHANGED <<tone_vars, app_vars>>
    \/ \E n \in DOMAIN cards : reset_to_optimal(n) /\ UNCHANGED <<tone_vars, app_vars>>
    \/ \E n \in DOMAIN cards : reset_to_safe(n) /\ UNCHANGED <<tone_vars, app_vars>>
    \/ \E n \in DOMAIN cards, value \in BOOLEAN :
          on_checkbox_active(n, value) /\ UNCHANGED <<tone_vars, app_vars>>
    \/ \E enabled \in BOOLEAN : toggle_warnings(enabled) /\ UNCHANGED <<tone_vars, app_vars>>

CardSpec == CardInit /\ [][CardNext]_vars


(***************************************************************************)
(* PestRepellerApp: the sound switch, the repelling timer and the callers  *)
(* of the ToneGenerator                                                    *)
(***************************************************************************)

\* Lines 336-379: the pests of pest_data the application model has cards for.
pest_data ==
    [n \in {"Mosquitoes", "Rats"} |->
        IF n = "Mosquitoes"
        THEN [min_freq |-> 38, max_freq |-> 44, optimal |-> 42]
        ELSE [min_freq |-> 20, max_freq |-> 35, optimal |-> 28]]

\* The durations the application passes, in half sample periods: the default
\* 1.0 s of play_frequency, the 1.5 s of the timer, the 0.5 s of the test sound.
DefaultDuration == 2 * sample_rate
TimerDuration == 3 * sample_rate
TestDuration == sample_rate

\* Lines 383-386 and 397-420: the application after on_start; the cards have
\* the class thresholds of lines 126-127.
AppInit ==
    /\ ToneInit
    /\ AppFields
    /\ show_warnings = TRUE
    /\ cards = [n \in DOMAIN pest_data |->
                   Card(pest_data[n].min_freq, pest_data[n].max_freq,
                        pest_data[n].optimal, pest_data[n].optimal, 23, 25, FALSE)]
    /\ scores = [n \in DOMAIN cards |-> update_bars(cards[n])]

\* Lines 500-502.
play_frequency(frequency_khz, duration, env) ==
    IF sound_enabled
    THEN play_tone(frequency_khz, duration, env)
    ELSE UNCHANGED tone_vars

\* Lines 504-506.
play_test_sound(env) ==
    /\ IF sound_enabled
       THEN play_frequency(25, TestDuration, env)
       ELSE UNCHANGED tone_vars
    /\ UNCHANGED <<card_vars, app_vars>>

\* Lines 281-308.
test_frequency(n, env) ==
    /\ IF cards[n].is_active /\ sound_enabled
       THEN play_frequency(cards[n].current_freq, DefaultDuration, env)
       ELSE UNCHANGED tone_vars
    /\ UNCHANGED <<card_vars, app_vars>>

\* The sequence seq without its first element equal to e.
RECURSIVE RemoveFirst(_, _)
RemoveFirst(seq, e) ==
    IF seq = <<>> THEN <<>>
    ELSE IF Head(seq) = e THEN Tail(seq)
    ELSE <<Head(seq)>> \o RemoveFirst(Tail(seq), e)

\* Lines 492-498.
stop_repelling ==
    /\ is_repelling' = FALSE
    /\ IF repelling_event # None
       THEN /\ clock' = RemoveFirst(clock, repelling_event[1])
            /\ repelling_event' = None
       ELSE UNCHANGED <<clock, repelling_event>>
    /\ stop_tone(None)

\* Lines 492-498 called from the Stop button.
stop_button ==
    /\ stop_repelling
    /\ UNCHANGED <<card_vars, sound_enabled>>

\* toggle_sound without the call of stop_repelling.
toggle_sound_no_stop(enabled) ==
    /\ sound_enabled' = enabled
    /\ UNCHANGED <<tone_vars, is_repelling, repelling_event, clock>>
    /\ UNCHANGED card_vars

\* Lines 571-574.
toggle_sound(enabled) ==
    /\ sound_enabled' = enabled
    /\ IF ~enabled
       THEN stop_repelling
       ELSE UNCHANGED <<tone_vars, is_repelling, repelling_event, clock>>
    /\ UNCHANGED card_vars

\* Lines 444-452: the current frequencies of the active cards, in the order
\* of the container's children.
RECURSIVE ActiveFrequencies(_)
ActiveFrequencies(names) ==
    IF names = {} THEN <<>>
    ELSE LET n == CHOOSE m \in names : \A k \in names : cards[m].optimal_freq >= cards[k].optimal_freq
         IN (IF cards[n].is_active THEN <<cards[n].current_freq>> ELSE <<>>)
            \o ActiveFrequencies(names \ {n})

\* start_repelling without the early return of lines 436-437.
start_repelling_unguarded ==
    /\ LET active_frequencies == ActiveFrequencies(DOMAIN cards)
       IN IF Len(active_frequencies) > 0
          THEN /\ is_repelling' = TRUE
               /\ IF sound_enabled
                  THEN /\ repelling_event' = Some(active_frequencies)
                       /\ clock' = Append(clock, active_frequencies)
                  ELSE UNCHANGED <<repelling_event, clock>>
               /\ UNCHANGED sound_enabled
          ELSE UNCHANGED app_vars
    /\ UNCHANGED <<tone_vars, card_vars>>

\* Lines 435-481.
start_repelling ==
    /\ IF is_repelling
       THEN UNCHANGED app_vars
       ELSE LET active_frequencies == ActiveFrequencies(DOMAIN cards)
            IN IF Len(active_frequencies) > 0
               THEN /\ is_repelling' = TRUE
                    /\ IF sound_enabled
                       THEN /\ repelling_event' = Some(active_frequencies)
                            /\ clock' = Append(clock, active_frequencies)
                       ELSE UNCHANGED <<repelling_event, clock>>
                    /\ UNCHANGED sound_enabled
               ELSE UNCHANGED app_vars
    /\ UNCHANGED <<tone_vars, card_vars>>

\* Lines 483-490, called by the Clock for its i-th scheduled event: a
\* callback that returns False is unscheduled.
play_next_frequency(i, freq, env) ==
    /\ i \in DOMAIN clock
    /\ IF ~is_repelling
       THEN /\ clock' = RemoveFirst(clock, clock[i])
            /\ UNCHANGED tone_vars
       ELSE /\ freq \in Range(clock[i])
            /\ play_frequency(freq, TimerDuration, env)
            /\ UNCHANGED clock
    /\ UNCHANGED <<card_vars, sound_enabled, is_repelling, repelling_event>>

\* Lines 246-251 in the application.
checkbox(n, value) ==
    /\ on_checkbox_active(n, value)
    /\ UNCHANGED <<tone_vars, app_vars>>

\* A tone of the application reaches its end.
tone_ends(h) ==
    /\ sound_ends(h)
    /\ UNCHANGED <<card_vars, app_vars>>

AppNext ==
    \/ \E enabled \in BOOLEAN : toggle_sound(enabled)
    \/ start_repelling
    \/ stop_button
    \/ \E env \in Outcomes : play_test_sound(env)
    \/ \E n \in DOMAIN cards, env \in Outcomes : test_frequency(n, env)
    \/ \E i \in DOMAIN clock, freq \in Freqs \cup {28, 42}, env \in Outcomes :
          play_next_frequency(i, freq, env)
    \/ \E n \in DOMAIN cards, value \in BOOLEAN : checkbox(n, value)
    \/ \E h \in DOMAIN handles : tone_ends(h)

AppSpec == AppInit /\ [][AppNext]_vars

(***************************************************************************)
(* Properties                                                              *)
(***************************************************************************)

\* The handles created for frequency f that report playing.
PlayingFor(hs, f) == HandlesOf(hs, f) \cap Playing(hs)

\* C1: in every reachable state at most one of the handles created for a
\* frequency is playing.
C1_AtMostOnePlayingPerFrequency ==
    \A f \in Freqs : Cardinality(PlayingFor(handles, f)) <= 1

\* C1 witness: play_tone has replaced a playing handle of its frequency (the
\* old one is stopped, the new one plays) while a tone of another frequency
\* is playing as well.
C1_Witness ==
    /\ lastOp = "play_tone"
    /\ \E f \in Freqs, g \in Freqs :
          /\ f # g
          /\ lastArg = Some(f)
          /\ stopped # {}
          /\ stopped \subseteq HandlesOf(handles, f)
          /\ Cardinality(PlayingFor(handles, f)) = 1
          /\ PlayingFor(handles, g) # {}

\* A step that is a play_tone(f) call which returns, made when sounds already
\* holds a handle for f.
SecondPlay(f) ==
    /\ lastOp' = "play_tone"
    /\ lastArg' = Some(f)
    /\ f \in DOMAIN sounds

\* C2 as stated: a second play_tone(f) that returns, all calls having valid
\* arguments, leaves exactly one playing handle for f, and the handle of the
\* first call is not playing.
C2_Original ==
    [][\A f \in Freqs :
          SecondPlay(f) /\ valid_calls' /\ lastResult' \in {"True", "False"} =>
             /\ handles'[sounds[f]].state = "stop"
             /\ Cardinality(PlayingFor(handles', f)) = 1]_vars

\* C2 amended: after a second play_tone(f) the handle of the first call is
\* not playing; exactly one handle for f plays when the call returned True,
\* and none plays when it returned False or raised.
C2_ReplaceOnRepeat ==
    [][\A f \in Freqs :
          SecondPlay(f) =>
             /\ handles'[sounds[f]].state = "stop"
             /\ IF lastResult' = "True"
                THEN /\ sounds'[f] # sounds[f]
                     /\ PlayingFor(handles', f) = {sounds'[f]}
                ELSE PlayingFor(handles', f) = {}]_vars

\* C2 witness: the second call found the first call's handle playing, stopped
\* it and started a new one.
C2_Witness ==
    /\ lastOp = "play_tone"
    /\ lastResult = "True"
    /\ \E f \in Freqs, old \in DOMAIN handles :
          /\ lastArg = Some(f)
          /\ stopped = {old}
          /\ handles[old].frequency_khz = f
          /\ sounds[f] # old
          /\ handles[sounds[f]].state = "play"

\* C3: after cleanup (here: one in which the system refused no deletion, all
\* calls having had valid arguments) no file the manager created is left on
\* storage and no handle is playing.
C3_CleanupLeavesNothing ==
    (lastOp = "cleanup" /\ denied = {} /\ valid_calls) =>
        /\ disk = {}
        /\ Playing(handles) = {}

\* C4: every file the manager has created (by calls with valid arguments) is
\* in its list of tracked paths.
C4_EveryCreatedFileTracked ==
    valid_calls => created \subseteq Range(temp_files)

\* C5: stop_tone(f) with a frequency f (all calls having valid arguments)
\* leaves every handle of another frequency that was playing still playing.
C5_StopLeavesOthersPlaying ==
    [][\A f \in Freqs :
          (valid_calls' /\ lastOp' = "stop_tone" /\ lastArg' = Some(f)) =>
             \A h \in DOMAIN handles :
                (handles[h].frequency_khz # f /\ handles[h].state = "play")
                   => handles'[h].state = "play"]_vars

\* A step that is a stop_tone(f) call made when sounds holds a handle for f.
StopOfKnown(f) ==
    /\ lastOp' = "stop_tone"
    /\ lastArg' = Some(f)
    /\ f \in DOMAIN sounds

\* C6 as stated: after stop_tone(f) for an f that has a handle (all calls
\* having valid arguments), the handle is stopped and sounds has no entry
\* for f.
C6_Original ==
    [][\A f \in Freqs :
          StopOfKnown(f) /\ valid_calls' =>
             /\ handles'[sounds[f]].state = "stop"
             /\ f \notin DOMAIN sounds']_vars

\* C6 amended: after stop_tone(f) for an f that has a handle, the handle is
\* stopped and sounds still maps f to that handle.
C6_StopKeepsEntry ==
    [][\A f \in Freqs :
          StopOfKnown(f) =>
             /\ handles'[sounds[f]].state = "stop"
             /\ f \in DOMAIN sounds'
             /\ sounds'[f] = sounds[f]]_vars

\* C6 witness: stop_tone(f) stopped the playing handle of f, and only it: a
\* tone of another frequency is still playing.
C6_Witness ==
    /\ lastOp = "stop_tone"
    /\ \E f \in Freqs :
          /\ lastArg = Some(f)
          /\ f \in DOMAIN sounds
          /\ stopped = {sounds[f]}
          /\ Playing(handles) # {}

\* C7: after stop_tone() without a frequency no handle of sounds is playing.
C7_StopAllStopsEvery ==
    (lastOp = "stop_tone" /\ lastArg = None) =>
        \A f \in DOMAIN sounds : handles[sounds[f]].state = "stop"

\* C7 witness: stop_tone() stopped the playing handles of two frequencies.
C7_Witness ==
    /\ lastOp = "stop_tone"
    /\ lastArg = None
    /\ Cardinality(stopped) >= 2
    /\ stopped \subseteq Range(sounds)

\* C8: stop_tone(f) called when no handle for f is playing (all calls having
\* valid arguments) changes nothing of the manager's state and raises nothing.
C8_StopIdempotent ==
    [][\A f \in Freqs :
          (/\ valid_calls'
           /\ lastOp' = "stop_tone"
           /\ lastArg' = Some(f)
           /\ PlayingFor(handles, f) = {}) =>
             /\ UNCHANGED <<sounds, handles, temp_files, disk>>
             /\ lastResult' = "None"]_vars

\* C9: cleanup raises nothing and calls os.unlink on every tracked file, in
\* order, whatever deletions fail.
C9_CleanupNeverRaises ==
    lastOp = "cleanup" =>
        /\ lastResult = "None"
        /\ unlinked = temp_files

\* C9 witness: the deletion of the first tracked file was refused, and a
\* later tracked file is gone all the same.
C9_Witness ==
    /\ lastOp = "cleanup"
    /\ Len(temp_files) >= 2
    /\ temp_files[1] \in denied
    /\ temp_files[1] \in disk
    /\ temp_files[2] \notin disk

\* C10: play_tone returns True exactly when the loader returned a Sound and
\* that Sound, made from the file just written, is playing and stored under
\* the frequency; when the loader returns None, play_tone returns False.
C10_PlayResult ==
    lastOp = "play_tone" =>
        /\ (lastResult = "True") <=>
              /\ lastLoad = "Sound"
              /\ lastArg[1] \in DOMAIN sounds
              /\ sounds[lastArg[1]] = Len(handles)
              /\ handles[Len(handles)].state = "play"
              /\ handles[Len(handles)].frequency_khz = lastArg[1]
              /\ handles[Len(handles)].source = temp_files[Len(temp_files)]
        /\ lastLoad = "None" => lastResult = "False"

\* C10 witness: the loader returned None for a written file and play_tone
\* returned False; the file is tracked and no handle was added for it.
C10_Witness ==
    /\ lastOp = "play_tone"
    /\ lastLoad = "None"
    /\ lastResult = "False"
    /\ temp_files # <<>>
    /\ \A h \in DOMAIN handles : handles[h].source # temp_files[Len(temp_files)]

\* round(x / y) of Python for y > 0: to the nearest integer, a tie to the even one.
RoundDiv(x, y) ==
    LET q == x \div y
        r == x % y
    IN IF 2 * r > y \/ (2 * r = y /\ q % 2 = 1) THEN q + 1 ELSE q

\* C11: a play_tone call whose frequency is <= 0, whose duration is <= 0 or
\* whose sample count is 0 fails with a parameter error and creates no file.
C11_InvalidParameterRejected ==
    [][(/\ lastOp' = "play_tone"
        /\ \/ lastArg'[1] <= 0
           \/ lastDuration' <= 0
           \/ NumSamples(lastDuration') = 0) =>
          /\ lastResult' = "ValueError"
          /\ created' = created]_vars

\* C12: the file written for a duration d > 0 (all calls having valid
\* arguments) holds round(sample_rate * d) samples; d is
\* lastDuration / (2 * sample_rate), so the product is lastDuration / 2.
C12_SampleCountRounded ==
    (lastOp = "play_tone" /\ valid_calls /\ written # <<>>) =>
        written[1].nframes = RoundDiv(lastDuration, 2)

\* The thresholds of card c are as the claims about the safety score take
\* them: safe_threshold > audible_threshold > 0.
ThresholdsOrdered(c) ==
    c.safe_threshold > c.audible_threshold /\ c.audible_threshold > 0

\* x <= y for two ratios with positive denominators.
RatioLeq(x, y) == x.num * y.den <= y.num * x.den

\* The ratio x is exactly the integer v.
RatioIs(x, v) == x.error = "none" /\ x.num = v * x.den

\* C13: for thresholds with safe > audible > 0, whatever the current
\* frequency and the pest range, both scores of a card lie in [0, 100].
C13_ScoresInRange ==
    \A n \in DOMAIN cards :
        ThresholdsOrdered(cards[n]) =>
            /\ scores[n].intensity.error = "none"
            /\ scores[n].intensity.value \in 0..100
            /\ scores[n].safety.error = "none"
            /\ scores[n].safety.num >= 0
            /\ scores[n].safety.num <= 100 * scores[n].safety.den

\* C13 witness: a negative current frequency, whose safety score is clamped
\* to 0, with an effectiveness strictly between 0 and 100.
C13_Witness ==
    \E n \in DOMAIN cards :
        /\ ThresholdsOrdered(cards[n])
        /\ cards[n].current_freq < 0
        /\ scores[n].safety.num = 0
        /\ scores[n].intensity.value \in 1..99

\* C14: for thresholds with safe > audible > 0 the safety score does not
\* decrease when the current frequency grows.
C14_SafetyMonotone ==
    \A n \in DOMAIN cards :
        ThresholdsOrdered(cards[n]) =>
            \A c1 \in CurrentValues, c2 \in CurrentValues :
                c1 <= c2 =>
                    RatioLeq(calculate_safety_score([cards[n] EXCEPT !.current_freq = c1]),
                             calculate_safety_score([cards[n] EXCEPT !.current_freq = c2]))

\* C14 witness: a card moved by its slider into the borderline band, whose
\* score, 75, lies strictly between the 50 of the audible boundary and the
\* 100 of the safe one.
C14_Witness ==
    \E n \in DOMAIN cards :
        /\ ThresholdsOrdered(cards[n])
        /\ cards[n].audible_threshold < cards[n].current_freq
        /\ cards[n].current_freq < cards[n].safe_threshold
        /\ cards[n].current_freq # cards[n].optimal_freq
        /\ RatioIs(scores[n].safety, 75)

\* The safety score of card c is 50 at the audible threshold and 100 at the
\* safe threshold.
BoundaryScores(c, score) ==
    /\ c.current_freq = c.audible_threshold => RatioIs(score, 50)
    /\ c.current_freq = c.safe_threshold => RatioIs(score, 100)

\* C15 as stated: for any thresholds with safe > audible the safety score is
\* exactly 50 at current = audible_threshold and exactly 100 at
\* current = safe_threshold.
C15_Original ==
    \A n \in DOMAIN cards :
        cards[n].safe_threshold > cards[n].audible_threshold =>
            BoundaryScores(cards[n], scores[n].safety)

\* C15 amended: the same for thresholds with safe > audible and a nonzero
\* audible threshold.
C15_BoundaryScores ==
    \A n \in DOMAIN cards :
        (/\ cards[n].safe_threshold > cards[n].audible_threshold
         /\ cards[n].audible_threshold # 0) =>
            BoundaryScores(cards[n], scores[n].safety)

\* C15 witness: a card at its audible threshold, which is not 0, scoring 50.
C15_Witness ==
    \E n \in DOMAIN cards :
        /\ cards[n].safe_threshold > cards[n].audible_threshold
        /\ cards[n].audible_threshold # 0
        /\ cards[n].current_freq = cards[n].audible_threshold
        /\ RatioIs(scores[n].safety, 50)

\* The zone of a card as the classification defines it.
Zone(c) ==
    IF c.current_freq <= c.audible_threshold THEN "audible"
    ELSE IF c.audible_threshold < c.current_freq /\ c.current_freq <= c.safe_threshold
    THEN "borderline"
    ELSE "ultrasonic"

\* C16: the warning text, the warning colour and the slider colour of a card
\* are those of its zone (audible: current <= audible_threshold; borderline:
\* audible_threshold < current <= safe_threshold; ultrasonic otherwise), and
\* with safe > audible the card is green only in the ultrasonic zone and
\* pink only in the audible one.
C16_OutputsFollowZone ==
    \A n \in DOMAIN cards :
        LET c == cards[n]
            z == Zone(c)
        IN /\ (z = "audible") <=>
                 get_warning_text(c) = "May be audible to humans (especially children)"
           /\ (z = "borderline") <=>
                 get_warning_text(c) = "Borderline range - some people may hear this"
           /\ (z = "ultrasonic") <=>
                 get_warning_text(c) = "Ultrasonic - Safe for human ears"
           /\ (z = "audible") <=> get_warning_color(c) = "#FF5252"
           /\ (z = "borderline") <=> get_warning_color(c) = "#FFB74D"
           /\ (z = "ultrasonic") <=> get_warning_color(c) = "#4CAF50"
           /\ (z = "audible") <=> get_slider_color(c) = "#FF5252"
           /\ (z = "borderline") <=> get_slider_color(c) = "#FFB74D"
           /\ (z = "ultrasonic") <=> get_slider_color(c) = "#4CAF50"
           /\ c.safe_threshold > c.audible_threshold =>
                 /\ (z = "ultrasonic") <=> get_card_color(c, show_warnings) = "#E8F5E9"
                 /\ (z = "audible" /\ show_warnings) <=>
                       get_card_color(c, show_warnings) = "#FFE5E5"

\* C16 witness: a card exactly at its safe threshold, above the audible one,
\* showing the borderline text and colours.
C16_Witness ==
    \E n \in DOMAIN cards :
        /\ cards[n].current_freq = cards[n].safe_threshold
        /\ cards[n].safe_threshold > cards[n].audible_threshold
        /\ get_warning_text(cards[n]) = "Borderline range - some people may hear this"
        /\ get_slider_color(cards[n]) = "#FFB74D"
        /\ get_card_color(cards[n], show_warnings) = "#FFFFFF"

\* C17: with max_freq < min_freq the effectiveness computation fails with
\* InvalidRange.
C17_InvalidRangeRejected ==
    \A n \in DOMAIN cards :
        cards[n].max_freq < cards[n].min_freq =>
            scores[n].intensity.error = "InvalidRange"

\* C18: play_tone(f) leaves the map entry and every handle of each other
\* frequency g as they were.
C18_PlayLeavesOthers ==
    [][lastOp' = "play_tone" =>
          \A g \in Freqs \ {lastArg'[1]} :
             /\ (g \in DOMAIN sounds') <=> (g \in DOMAIN sounds)
             /\ g \in DOMAIN sounds => sounds'[g] = sounds[g]
             /\ \A h \in HandlesOf(handles, g) : handles'[h] = handles[h]]_vars

\* C18 witness: play_tone(f) has started a tone while the tone of another
\* frequency g, started earlier, goes on playing.
C18_Witness ==
    /\ lastOp = "play_tone"
    /\ lastResult = "True"
    /\ \E f \in Freqs, g \in Freqs :
          /\ f # g
          /\ lastArg = Some(f)
          /\ g \in DOMAIN sounds
          /\ sounds[g] < sounds[f]
          /\ handles[sounds[g]].state = "play"
          /\ handles[sounds[f]].state = "play"

\* C19: a play_tone(f) that returns False has stopped the handle stored under
\* f, has created one new file, which exists and is the last tracked path,
\* and has left the map and the number of handles as they were.
C19_FailedLoadEffects ==
    [][(lastOp' = "play_tone" /\ lastResult' = "False") =>
          LET f == lastArg'[1]
          IN /\ sounds' = sounds
             /\ Len(handles') = Len(handles)
             /\ f \in DOMAIN sounds => handles'[sounds[f]].state = "stop"
             /\ \E name \in created' \ created :
                   /\ created' = created \cup {name}
                   /\ temp_files' = Append(temp_files, name)
                   /\ name \in disk']_vars

\* C19 witness: the load failed in a call that had found the handle of its
\* frequency playing; that handle, still in the map, is stopped.
C19_Witness ==
    /\ lastOp = "play_tone"
    /\ lastResult = "False"
    /\ lastLoad = "None"
    /\ \E f \in Freqs :
          /\ lastArg = Some(f)
          /\ f \in DOMAIN sounds
          /\ stopped = {sounds[f]}
          /\ handles[sounds[f]].source # temp_files[Len(temp_files)]


\* C20: in the application, every step that leaves sound_enabled false
\* leaves no handle of the tone generator playing and no repelling timer
\* scheduled or held, and a step that starts with sound_enabled false creates
\* no tone file and writes nothing.
C20_SilentWhileDisabled ==
    [][/\ ~sound_enabled' =>
            /\ Playing(handles') = {}
            /\ clock' = <<>>
            /\ repelling_event' = None
       /\ ~sound_enabled =>
            /\ created' = created
            /\ disk' = disk
            /\ temp_files' = temp_files
            /\ DOMAIN handles' = DOMAIN handles]_vars

\* C20: sound has been disabled while a tone of the application was
\* playing on an active card; the switch stopped the tone and no timer is left.
C20_Witness ==
    /\ ~sound_enabled
    /\ lastOp = "stop_tone"
    /\ stopped # {}
    /\ created # {}
    /\ ~is_repelling
    /\ clock = <<>>
    /\ \E n \in DOMAIN cards : cards[n].is_active

\* C21: after every step of the application at most one repelling timer is
\* scheduled, it is the one the application holds, and it is scheduled only
\* while is_repelling is true; a step that starts and ends repelling (a
\* start_repelling while already repelling among them) leaves the timer as it
\* is; a step that ends with is_repelling false (stop_repelling) leaves no
\* timer scheduled and none held; and a step that starts with is_repelling
\* false plays no tone of the timer.
C21_OneTimerWhileRepelling ==
    [][/\ Len(clock') <= 1
       /\ clock' # <<>> =>
            /\ is_repelling'
            /\ repelling_event' = Some(clock'[1])
       /\ (is_repelling /\ is_repelling') =>
            /\ clock' = clock
            /\ repelling_event' = repelling_event
       /\ ~is_repelling' =>
            /\ clock' = <<>>
            /\ repelling_event' = None
       /\ ~is_repelling =>
            ~(/\ lastOp' = "play_tone"
              /\ lastDuration' = TimerDuration
              /\ created' # created)]_vars

\* C21: the application is repelling with its one timer scheduled, and a
\* tick of that timer has just played a tone of 1.5 s.
C21_Witness ==
    /\ is_repelling
    /\ Len(clock) = 1
    /\ repelling_event = Some(clock[1])
    /\ lastOp = "play_tone"
    /\ lastDuration = TimerDuration
    /\ lastResult = "True"
    /\ Playing(handles) # {}


====
